---- MODULE Spec2Model ----
(***************************************************************************)
(* Model of the soundboard (src/src/main.rs): a terminal grid of tiles,    *)
(* each bound to an audio clip.  The main loop draws a frame (resolving    *)
(* the grid layout when the viewport size changed and rebuilding the       *)
(* rectangle -> clip hit-map), then polls one input event and dispatches   *)
(* it; every trigger spawns a detached playback thread.                    *)
(*                                                                         *)
(* Layout resolution is done by the taffy crate and terminal/audio I/O by  *)
(* crossterm and rodio.  They are modelled by what main.rs asks of them:   *)
(* a CSS grid with one auto-fit column track minmax(10, 40), block leaves  *)
(* of height 5, rounded to whole cells.                                    *)
(***************************************************************************)
EXTENDS Integers, Sequences, FiniteSets, TLC

VARIABLES
    config,              \* the clip registry (CONFIG), fixed for a run
    auto_fit_track,      \* size a repeated track counts for when fitting repetitions
    pc,                  \* position of main
    raw_mode,            \* terminal: raw mode enabled
    alt_screen,          \* terminal: alternate screen entered
    mouse_capture,       \* terminal: mouse capture enabled
    last_computed_size,  \* None or the size of the last layout resolution
    layout,              \* final layout of every tile node (taffy tree geometry)
    targets,             \* hit-map: set of [r, d] with r a Rect, d clip bytes
    should_quit,
    queue,               \* input events read by event::read, oldest first
    units,               \* playback threads in launch order
    arrived,             \* number of input events that have arrived so far
    matches,             \* number of trigger matches dispatched so far
    last,                \* the most recent handle_events call
    frame,               \* << >> or the size of the most recent frame
    fresh,               \* the hit-map was rebuilt since the last handle_events
    trail                \* the frames drawn, when they are being recorded

vars == <<config, auto_fit_track, pc, raw_mode, alt_screen, mouse_capture,
          last_computed_size, layout, targets, should_quit, queue, units,
          arrived, matches, last, frame, fresh, trail>>

----------------------------------------------------------------------------
(* Bounds *)

MaxEvents == 2
MaxThreads == 3
\* tile counts and viewport widths of the layout sweep
MaxTiles == 4
MaxWidth == 125
\* frames recorded in a resize sequence
MaxFrames == 4

(* Program constants *)

MinTrack == 10
MaxTrack == 40
TileHeight == 5
U16Max == 65535

Max(a, b) == IF a >= b THEN a ELSE b
Min(a, b) == IF a <= b THEN a ELSE b

----------------------------------------------------------------------------
(* The clip registry *)

CONFIG ==
    << [key |-> "g", name |-> "geen-grote-blij", data |-> "geen-grote-blij.wav"],
       [key |-> "b", name |-> "grote-blij",      data |-> "grote-blij.wav"],
       [key |-> "p", name |-> "puree",           data |-> "puree.wav"] >>

\* The table is compile-time data.  Besides the repository's table the model
\* runs the same code on an empty table and on one with a repeated trigger.
Registries ==
    { CONFIG,
      << >>,
      << [key |-> "g", name |-> "geen-grote-blij", data |-> "geen-grote-blij.wav"],
         [key |-> "g", name |-> "grote-blij",      data |-> "grote-blij.wav"] >> }

Tiles == 1 .. Len(config)

\* mapping: tile node -> registry entry (generate_taffy_tree, mapping.insert)
Mapping(i) == config[i]

----------------------------------------------------------------------------
(* Rectangles *)

\* `v as u16` on a non-negative whole f32: saturating cast
ToU16(v) == IF v < 0 THEN 0 ELSE IF v > U16Max THEN U16Max ELSE v

RectNew(x, y, w, h) ==
    [x |-> ToU16(x), y |-> ToU16(y), width |-> ToU16(w), height |-> ToU16(h)]

\* Rect::contains(Position): left <= x < right and top <= y < bottom
Contains(r, col, row) ==
    /\ col >= r.x
    /\ col < Min(r.x + r.width, U16Max)
    /\ row >= r.y
    /\ row < Min(r.y + r.height, U16Max)

\* a and b share no cell
Disjoint(a, b) ==
    \/ a.x + a.width <= b.x
    \/ b.x + b.width <= a.x
    \/ a.y + a.height <= b.y
    \/ b.y + b.height <= a.y

\* r lies inside outer
Inside(r, outer) ==
    /\ r.x >= outer.x
    /\ r.y >= outer.y
    /\ r.x + r.width <= outer.x + outer.width
    /\ r.y + r.height <= outer.y + outer.height

----------------------------------------------------------------------------
(* Layout resolution: tree.compute_layout(root_node, viewport_size)        *)

\* f32::round of the non-negative rational n/d (half away from zero)
Round(n, d) == (2 * n + d) \div (2 * d)

\* Number of repetitions of the auto-fit column track in a container of
\* width W, each repetition counting for `track` cells; never less than 1.
AutoFitRepetitions(W, track) ==
    IF track > W THEN 1 ELSE ((W - track) \div track) + 1

\* Columns that hold a tile: tiles are placed row-major into the repeated
\* tracks and auto-fit collapses the tracks left empty.
UsedColumns(W, N, track) == Min(N, AutoFitRepetitions(W, track))

UsedRows(W, N, track) ==
    (N + AutoFitRepetitions(W, track) - 1) \div AutoFitRepetitions(W, track)

\* Variant: the free space is shared without the upper limit of the track
ColumnSpanUncapped(W, cols) == Max(W, MinTrack * cols)

\* Width of one column times the number of columns: every column starts at
\* its minimum and the free space is shared equally up to the maximum.
ColumnSpan(W, cols) == Min(MaxTrack * cols, Max(W, MinTrack * cols))

\* Height of one row times the number of rows: rows are auto tracks sized by
\* the tile height and stretched equally over a taller container.
RowSpan(H, rows) == Max(H, TileHeight * rows)

\* Row-major placement of tile i into reps columns
TileColumn(i, reps) == (i - 1) % reps

\* Variant: the tiles are all placed in the first row
TileRowFirst(i, reps) == 0

TileRow(i, reps) == (i - 1) \div reps

\* Final (rounded) layout of tile i of N in a W x H viewport.
TileLayout(i, N, W, H, track) ==
    LET reps == AutoFitRepetitions(W, track)
        cols == UsedColumns(W, N, track)
        rows == UsedRows(W, N, track)
        c    == TileColumn(i, reps)
        r    == TileRow(i, reps)
        cs   == ColumnSpan(W, cols)
        rs   == RowSpan(H, rows)
        x0   == Round(c * cs, cols)
        x1   == Round((c + 1) * cs, cols)
        y0   == Round(r * rs, rows)
        y1   == Round(r * rs + TileHeight * rows, rows)
    IN  [x |-> x0, y |-> y0, width |-> x1 - x0, height |-> y1 - y0]

\* The container takes 100% of the viewport in both axes.
RootLayout(W, H) == [x |-> 0, y |-> 0, width |-> W, height |-> H]

ComputeLayout(size, N, track) ==
    [root  |-> RootLayout(size[1], size[2]),
     tiles |-> [i \in 1 .. N |-> TileLayout(i, N, size[1], size[2], track)]]

\* A fresh tree: every node's layout is zero until the first resolution.
GenerateTaffyTree(N) ==
    [root |-> [x |-> 0, y |-> 0, width |-> 0, height |-> 0],
     tiles |-> [i \in 1 .. N |-> [x |-> 0, y |-> 0, width |-> 0, height |-> 0]]]

----------------------------------------------------------------------------
(* Hit-map construction: create_layout                                     *)

NodeRect(l) == RectNew(l.x, l.y, l.width, l.height)

\* HashMap::insert: one value per key, the later insert wins
Insert(t, r, d) == {e \in t : e.r # r} \cup {[r |-> r, d |-> d]}

RECURSIVE InsertTiles(_, _, _, _)
InsertTiles(t, lay, i, N) ==
    IF i > N THEN t
    ELSE InsertTiles(Insert(t, NodeRect(lay.tiles[i]), Mapping(i).data), lay, i + 1, N)

\* Variant: the hit-map is not cleared, the tiles are added to what it held
CreateLayoutNoClear(lay, t) == InsertTiles(targets, lay, 1, Len(config))

\* Variant: the container inserts an entry for its own rectangle
CreateLayoutRoot(lay, t) ==
    InsertTiles(Insert(t, NodeRect(lay.root), "-"), lay, 1, Len(config))

\* The root has no binding and inserts nothing; its children are visited in order.
CreateLayout(lay, t) == InsertTiles(t, lay, 1, Len(config))

----------------------------------------------------------------------------
(* Input events (crossterm::event::Event)                                  *)

Key(kind, code) ==
    [type |-> "Key", kind |-> kind, code |-> code, column |-> 0, row |-> 0]

Mouse(kind, column, row) ==
    [type |-> "Mouse", kind |-> kind, code |-> "-", column |-> column, row |-> row]

Other(type) ==
    [type |-> type, kind |-> "-", code |-> "-", column |-> 0, row |-> 0]

NoEvent == Other("None")

\* The events the terminal delivers in the model.
Inputs ==
    {Key("Press", c) : c \in {"g", "p", "Esc"}}
        \cup {Key("Release", "g")}
        \cup {Mouse("Up", 0, 0), Mouse("Up", 50, 2), Mouse("Down", 0, 0)}
        \cup {Other("Resize")}

\* The viewport sizes frame.size() reports in the model: <<width, height>>.
Sizes == {<<100, 24>>, <<25, 12>>, <<5, 3>>}

\* Variant: any key event counts, whatever its kind
IsKeyAny(ev) == ev.type = "Key"

IsKeyPress(ev) == ev.type = "Key" /\ ev.kind = "Press"

\* Variant: dispatch on button-down instead of button-up
IsMouseDown(ev) == ev.type = "Mouse" /\ ev.kind = "Down"

IsMouseUp(ev) == ev.type = "Mouse" /\ ev.kind = "Up"

----------------------------------------------------------------------------
(* Playback threads: thread::spawn(|| play_sound(data))                    *)

InFlight == {"opening", "decoding", "playing"}

\* Variant: play_sound called inline, over by the time the caller goes on
NewUnitInline(d) == [data |-> d, st |-> "finished"]

\* A spawned thread starts play_sound by opening the output device.
NewUnit(d) == [data |-> d, st |-> "opening"]

\* main returning ends the process and with it every thread still running
Killed(us) ==
    [i \in DOMAIN us |->
        IF us[i].st \in InFlight THEN [us[i] EXCEPT !.st = "killed"] ELSE us[i]]

Running == pc \notin {"exit_ok", "exit_err"}

\* Variant: a playback error takes the process down
UnitStepAbort(i, from, to) ==
    /\ pc \notin {"exit_ok", "exit_err"}
    /\ i \in DOMAIN units
    /\ units[i].st = from
    /\ units' = [units EXCEPT ![i].st = to]
    /\ pc' = IF to = "failed" THEN "exit_err" ELSE pc
    /\ UNCHANGED <<config, auto_fit_track, raw_mode, alt_screen, mouse_capture,
                   last_computed_size, layout, targets, should_quit, queue,
                   arrived, matches, last, frame, fresh, trail>>

\* One step of play_sound in thread i: from state `from` to state `to`.
\* A step that returns Err ends the thread in "failed": the closure prints
\* the error and the thread is over.
UnitStep(i, from, to) ==
    /\ Running
    /\ i \in DOMAIN units
    /\ units[i].st = from
    /\ units' = [units EXCEPT ![i].st = to]
    /\ UNCHANGED <<config, auto_fit_track, pc, raw_mode, alt_screen, mouse_capture,
                   last_computed_size, layout, targets, should_quit, queue,
                   arrived, matches, last, frame, fresh, trail>>

\* OutputStream::try_default().wrap_err("stream")?
OpenStream(i) == UnitStep(i, "opening", "decoding")
OpenStreamErr(i) == UnitStep(i, "opening", "failed")

\* Decoder::new(Cursor::new(data.to_vec())).wrap_err("decoder")?
\* Sink::try_new(&stream_handle).wrap_err("get sink")?; sink.append(source)
Decode(i) == UnitStep(i, "decoding", "playing")
DecodeErr(i) == UnitStep(i, "decoding", "failed")

\* sink.sleep_until_end() returns; Ok(())
SleepUntilEnd(i) == UnitStep(i, "playing", "finished")

----------------------------------------------------------------------------
(* main                                                                    *)

fixedVars == <<config, auto_fit_track>>
termVars  == <<raw_mode, alt_screen, mouse_capture>>
loopVars  == <<last_computed_size, layout, targets, should_quit>>
envVars   == <<queue, arrived>>
logVars   == <<matches, last>>
obsVars   == <<frame, fresh, trail>>

NoCall == [poll |-> "none", ev |-> NoEvent, n0 |-> 0, targets |-> {}, ret |-> FALSE]

Init ==
    /\ config \in Registries
    /\ auto_fit_track \in {MinTrack, MaxTrack}
    /\ pc = "install"
    /\ raw_mode = FALSE
    /\ alt_screen = FALSE
    /\ mouse_capture = FALSE
    /\ last_computed_size = << >>
    /\ layout = GenerateTaffyTree(Len(config))
    /\ targets = {}
    /\ should_quit = FALSE
    /\ queue = << >>
    /\ units = << >>
    /\ arrived = 0
    /\ matches = 0
    /\ last = NoCall
    /\ frame = << >>
    /\ fresh = FALSE
    /\ trail = << >>

\* A `?` in main returns the error: main ends where it stands.
MainErr(at) ==
    /\ pc = at
    /\ pc' = "exit_err"
    /\ units' = Killed(units)
    /\ UNCHANGED <<fixedVars, termVars, loopVars, envVars, logVars, obsVars>>

\* color_eyre::install()?
Install ==
    /\ pc = "install"
    /\ pc' = "enable_raw"
    /\ UNCHANGED <<fixedVars, termVars, loopVars, envVars, logVars, obsVars, units>>
InstallErr == MainErr("install")

\* enable_raw_mode()?
EnableRawMode ==
    /\ pc = "enable_raw"
    /\ raw_mode' = TRUE
    /\ pc' = "enter_alt"
    /\ UNCHANGED <<fixedVars, alt_screen, mouse_capture, loopVars, envVars, logVars, obsVars, units>>
EnableRawModeErr == MainErr("enable_raw")

\* stdout().execute(EnterAlternateScreen)?
EnterAlternateScreen ==
    /\ pc = "enter_alt"
    /\ alt_screen' = TRUE
    /\ pc' = "enable_mouse"
    /\ UNCHANGED <<fixedVars, raw_mode, mouse_capture, loopVars, envVars, logVars, obsVars, units>>
EnterAlternateScreenErr == MainErr("enter_alt")

\* .execute(EnableMouseCapture)?
EnableMouseCapture ==
    /\ pc = "enable_mouse"
    /\ mouse_capture' = TRUE
    /\ pc' = "new_terminal"
    /\ UNCHANGED <<fixedVars, raw_mode, alt_screen, loopVars, envVars, logVars, obsVars, units>>
EnableMouseCaptureErr == MainErr("enable_mouse")

\* Terminal::new(..)? and the locals of lines 43-48
NewTerminal ==
    /\ pc = "new_terminal"
    /\ last_computed_size' = << >>
    /\ layout' = GenerateTaffyTree(Len(config))
    /\ targets' = {}
    /\ should_quit' = FALSE
    /\ pc' = "draw"
    /\ UNCHANGED <<fixedVars, termVars, envVars, logVars, obsVars, units>>
NewTerminalErr == MainErr("new_terminal")

\* Variant: the layout is resolved in the first frame only
NeedsLayoutOnce(lcs, size) == lcs = << >>

\* Variant: the layout is resolved in every frame
NeedsLayoutAlways(lcs, size) == TRUE

\* Variant: only a change of width counts as a change of size
NeedsLayoutWidth(lcs, size) == lcs = << >> \/ lcs[1][1] # size[1]

\* last_computed_size != Some(frame.size())
NeedsLayout(lcs, size) == lcs # <<size>>

\* The closure given to terminal.draw, for a frame of the given size:
\* resolve the layout if the size changed, then clear and refill the hit-map.
RenderFrame(size) ==
    LET stale == NeedsLayout(last_computed_size, size)
        lay   == IF stale
                 THEN ComputeLayout(size, Len(config), auto_fit_track)
                 ELSE layout
    IN  /\ layout' = lay
        /\ last_computed_size' = IF stale THEN <<size>> ELSE last_computed_size
        /\ targets' = CreateLayout(lay, {})
        /\ frame' = <<size>>

\* terminal.draw(|frame| ..)? with frame.size() drawn from S
DrawAt(S) ==
    /\ pc = "draw"
    /\ \E size \in S : RenderFrame(size)
    /\ pc' = "events"
    /\ fresh' = TRUE
    /\ UNCHANGED <<fixedVars, termVars, should_quit, envVars, logVars, units>>

Draw == DrawAt(Sizes) /\ UNCHANGED trail

DrawErr == MainErr("draw")

\* Variant: stop at the first entry with the pressed key
KeyMatchesFirst(code) ==
    LET m == SelectSeq(config, LAMBDA e : e.key = code)
    IN  IF m = << >> THEN << >> ELSE <<Head(m)>>

\* Registry entries whose trigger is the pressed key, in registry order
KeyMatches(code) == SelectSeq(config, LAMBDA e : e.key = code)

\* Hit-map entries whose rectangle contains the release position
Hits(t, column, row) == {e \in t : Contains(e.r, column, row)}

\* The orders in which iterating a HashMap can yield the entries of S
Orderings(S) ==
    {o \in [1 .. Cardinality(S) -> S] : \A i, j \in DOMAIN o : i # j => o[i] # o[j]}

\* Variant: a clip that is still playing is not launched again
LaunchedDedup(ev, t) ==
    LET busy(d) == \E i \in DOMAIN units : units[i].data = d /\ units[i].st \in InFlight
        km == SelectSeq(KeyMatches(ev.code), LAMBDA e : ~busy(e.data))
    IN  IF IsKeyPress(ev)
        THEN {[i \in DOMAIN km |-> NewUnit(km[i].data)]}
        ELSE IF IsMouseUp(ev)
        THEN {[i \in DOMAIN o |-> NewUnit(o[i].d)] :
                 o \in Orderings({e \in Hits(t, ev.column, ev.row) : ~busy(e.d)})}
        ELSE {<< >>}

\* The threads one event spawns, in spawn order
Launched(ev, t) ==
    IF IsKeyPress(ev)
    THEN {[i \in DOMAIN KeyMatches(ev.code) |-> NewUnit(KeyMatches(ev.code)[i].data)]}
    ELSE IF IsMouseUp(ev)
    THEN {[i \in DOMAIN o |-> NewUnit(o[i].d)] : o \in Orderings(Hits(t, ev.column, ev.row))}
    ELSE {<< >>}

\* Number of trigger matches of an event: registry entries with the pressed
\* key, hit-map rectangles containing the release position
MatchCount(ev, t) ==
    IF ev.type = "Key" /\ ev.kind = "Press"
    THEN Cardinality({i \in DOMAIN config : config[i].key = ev.code})
    ELSE IF ev.type = "Mouse" /\ ev.kind = "Up"
    THEN Cardinality({e \in t : Contains(e.r, ev.column, ev.row)})
    ELSE 0

\* Variant: the quit key is "q"
QuitsOnQ(ev) == IsKeyPress(ev) /\ ev.code = "q"

\* The value handle_events returns for an event
Quits(ev) == IsKeyPress(ev) /\ ev.code = "Esc"

\* Variant: reading an event discards everything that was pending
RestDrain(q) == << >>

\* event::read() takes the oldest pending event; the others stay queued
Rest(q) == Tail(q)

\* should_quit = handle_events(&targets)?  -- event::poll returns true
HandleEvents ==
    /\ pc = "events"
    /\ queue # << >>
    /\ \E launched \in Launched(Head(queue), targets) :
        units' = units \o launched
    /\ matches' = matches + MatchCount(Head(queue), targets)
    /\ queue' = Rest(queue)
    /\ should_quit' = Quits(Head(queue))
    /\ pc' = IF Quits(Head(queue)) THEN "disable_raw" ELSE "draw"
    /\ last' = [poll |-> "event", ev |-> Head(queue), n0 |-> Len(units),
                targets |-> IF Head(queue).type = "Mouse" THEN targets ELSE {},
                ret |-> Quits(Head(queue))]
    /\ fresh' = FALSE
    /\ UNCHANGED <<fixedVars, termVars, last_computed_size, layout, targets, arrived,
                   frame, trail>>

\* Variant: after a timeout the loop polls again without drawing a frame
PollTimeoutRepoll ==
    /\ pc = "events"
    /\ queue = << >>
    /\ should_quit' = FALSE
    /\ pc' = "events"
    /\ last' = [poll |-> "timeout", ev |-> NoEvent, n0 |-> Len(units),
                targets |-> {}, ret |-> FALSE]
    /\ fresh' = FALSE
    /\ UNCHANGED <<fixedVars, termVars, last_computed_size, layout, targets,
                   envVars, units, matches, frame, trail>>

\* should_quit = handle_events(&targets)?  -- event::poll times out
PollTimeout ==
    /\ pc = "events"
    /\ queue = << >>
    /\ should_quit' = FALSE
    /\ pc' = "draw"
    /\ last' = [poll |-> "timeout", ev |-> NoEvent, n0 |-> Len(units),
                targets |-> {}, ret |-> FALSE]
    /\ fresh' = FALSE
    /\ UNCHANGED <<fixedVars, termVars, last_computed_size, layout, targets,
                   envVars, units, matches, frame, trail>>

\* event::poll(..)? or event::read()? returns Err
HandleEventsErr == MainErr("events")

\* disable_raw_mode()?
DisableRawMode ==
    /\ pc = "disable_raw"
    /\ raw_mode' = FALSE
    /\ pc' = "disable_mouse"
    /\ UNCHANGED <<fixedVars, alt_screen, mouse_capture, loopVars, envVars, logVars, obsVars, units>>
DisableRawModeErr == MainErr("disable_raw")

\* stdout().execute(DisableMouseCapture)?
DisableMouseCapture ==
    /\ pc = "disable_mouse"
    /\ mouse_capture' = FALSE
    /\ pc' = "leave_alt"
    /\ UNCHANGED <<fixedVars, raw_mode, alt_screen, loopVars, envVars, logVars, obsVars, units>>
DisableMouseCaptureErr == MainErr("disable_mouse")

\* .execute(LeaveAlternateScreen)?; Ok(())
LeaveAlternateScreen ==
    /\ pc = "leave_alt"
    /\ alt_screen' = FALSE
    /\ pc' = "exit_ok"
    /\ units' = Killed(units)
    /\ UNCHANGED <<fixedVars, raw_mode, mouse_capture, loopVars, envVars, logVars, obsVars>>
LeaveAlternateScreenErr == MainErr("leave_alt")

\* The most threads an event can launch: one per entry with the pressed key,
\* one for the tile under a button-up
Load(ev) ==
    IF ev.type = "Key" /\ ev.kind = "Press"
    THEN Cardinality({i \in DOMAIN config : config[i].key = ev.code})
    ELSE IF ev.type = "Mouse" /\ ev.kind = "Up" /\ config # << >> THEN 1
    ELSE 0

RECURSIVE QueueLoad(_)
QueueLoad(q) == IF q = << >> THEN 0 ELSE Load(Head(q)) + QueueLoad(Tail(q))

\* The terminal delivers an input event.  The model stops delivering events
\* after MaxEvents of them, and triggers once MaxThreads threads are accounted for.
Arrive ==
    /\ pc = "events"
    /\ arrived < MaxEvents
    /\ \E ev \in Inputs :
        /\ Len(units) + QueueLoad(queue) + Load(ev) <= MaxThreads
        /\ queue' = Append(queue, ev)
    /\ arrived' = arrived + 1
    /\ UNCHANGED <<fixedVars, pc, termVars, loopVars, logVars, obsVars, units>>

Next ==
    \/ Install \/ InstallErr
    \/ EnableRawMode \/ EnableRawModeErr
    \/ EnterAlternateScreen \/ EnterAlternateScreenErr
    \/ EnableMouseCapture \/ EnableMouseCaptureErr
    \/ NewTerminal \/ NewTerminalErr
    \/ Draw \/ DrawErr
    \/ HandleEvents \/ PollTimeout \/ HandleEventsErr
    \/ DisableRawMode \/ DisableRawModeErr
    \/ DisableMouseCapture \/ DisableMouseCaptureErr
    \/ LeaveAlternateScreen \/ LeaveAlternateScreenErr
    \/ Arrive
    \/ \E i \in DOMAIN units : OpenStream(i)
    \/ \E i \in DOMAIN units : OpenStreamErr(i)
    \/ \E i \in DOMAIN units : Decode(i)
    \/ \E i \in DOMAIN units : DecodeErr(i)
    \/ \E i \in DOMAIN units : SleepUntilEnd(i)

Spec == Init /\ [][Next]_vars

\* The program as built: the repository's own table only.
InitRepo == Init /\ config = CONFIG

SpecRepo == InitRepo /\ [][Next]_vars

(* The draw loop alone, swept over tile counts and viewport sizes *)

\* A table of n entries: the repository's, cut or continued with further clips
Table(n) ==
    [i \in 1 .. n |->
        IF i \in DOMAIN CONFIG THEN CONFIG[i]
        ELSE [key |-> "-", name |-> "clip", data |-> ToString(i) \o ".wav"]]

Viewports == (1 .. MaxWidth) \X {3, 12, 24}

\* main on entering the loop: the terminal is set up, nothing is resolved yet
LoopEntry ==
    /\ auto_fit_track \in {MinTrack, MaxTrack}
    /\ pc = "draw"
    /\ raw_mode = TRUE
    /\ alt_screen = TRUE
    /\ mouse_capture = TRUE
    /\ last_computed_size = << >>
    /\ layout = GenerateTaffyTree(Len(config))
    /\ targets = {}
    /\ should_quit = FALSE
    /\ queue = << >>
    /\ units = << >>
    /\ arrived = 0
    /\ matches = 0
    /\ last = NoCall
    /\ frame = << >>
    /\ fresh = FALSE
    /\ trail = << >>

LayoutInit == config \in {Table(n) : n \in 0 .. MaxTiles} /\ LoopEntry

DrawViewport == DrawAt(Viewports) /\ UNCHANGED trail

LayoutNext == DrawViewport \/ PollTimeout

LayoutSpec == LayoutInit /\ [][LayoutNext]_vars

(* The draw loop alone, with the terminal being resized between frames *)

ResizeSizes == {<<80, 24>>, <<40, 24>>, <<25, 12>>, <<25, 24>>}

\* What one pass through the draw closure did: the frame's size, whether
\* compute_layout ran, and the rectangles and hit-map it left behind.
FrameRecord(size, ran, lay, t) ==
    [size |-> size, resolved |-> ran,
     tiles |-> [i \in DOMAIN lay.tiles |-> NodeRect(lay.tiles[i])],
     targets |-> t]

ResizeInit == config \in Registries /\ LoopEntry

DrawRecorded ==
    /\ Len(trail) < MaxFrames
    /\ DrawAt(ResizeSizes)
    /\ trail' = Append(trail, FrameRecord(frame'[1],
                                          NeedsLayout(last_computed_size, frame'[1]),
                                          layout', targets'))

ResizeNext == DrawRecorded \/ PollTimeout

ResizeSpec == ResizeInit /\ [][ResizeNext]_vars

----------------------------------------------------------------------------
(* Properties                                                              *)

\* The threads spawned by the most recent handle_events call
NewUnits == SubSeq(units, last.n0 + 1, Len(units))

\* How many of the threads in us play the bytes d
Playing(us, d) == Cardinality({i \in DOMAIN us : us[i].data = d})

ClipBytes == {config[j].data : j \in DOMAIN config}

PastLoop == {"disable_raw", "disable_mouse", "leave_alt", "exit_ok", "exit_err"}

\* C1 -- Key dispatch: a key event of kind Press launches exactly one thread
\* per registry entry whose trigger equals the pressed code, bound to that
\* entry's bytes, and no thread for any other entry; with unique triggers
\* (as in CONFIG) that is exactly one thread for a trigger key.
KeyDispatch ==
    (last.poll = "event" /\ last.ev.type = "Key" /\ last.ev.kind = "Press") =>
        /\ \A d \in ClipBytes :
              Playing(NewUnits, d) =
                  Cardinality({j \in DOMAIN config :
                                  config[j].key = last.ev.code /\ config[j].data = d})
        /\ \A i \in DOMAIN NewUnits : NewUnits[i].data \in ClipBytes
        /\ (config = CONFIG /\ last.ev.code \in {"g", "b", "p"}) => Len(NewUnits) = 1

\* C1 witness: with the repository's table, pressing "p" launched one thread
\* bound to the bytes of the third entry.
KeyDispatchWitness ==
    /\ config = CONFIG
    /\ last.poll = "event"
    /\ last.ev = Key("Press", "p")
    /\ Len(units) = last.n0 + 1
    /\ units[Len(units)].data = CONFIG[3].data

\* C1, repeated trigger: both entries bound to "g" were launched by one press.
KeyDispatchRepeatedWitness ==
    /\ config # CONFIG
    /\ last.poll = "event"
    /\ last.ev = Key("Press", "g")
    /\ Len(units) = last.n0 + 2
    /\ units[Len(units) - 1].data # units[Len(units)].data

\* C2 -- Pointer dispatch: a mouse button-up at (column, row) launches a
\* thread for a tile's bytes iff the position lies in that tile's rectangle
\* of the hit-map handed to handle_events (x <= column < x + width and
\* y <= row < y + height); it launches at most one thread, and none when the
\* position is outside every rectangle.
PointerDispatch ==
    (last.poll = "event" /\ last.ev.type = "Mouse" /\ last.ev.kind = "Up") =>
        /\ \A d \in ClipBytes :
              Playing(NewUnits, d) =
                  Cardinality({e \in last.targets :
                                  /\ e.d = d
                                  /\ e.r.x <= last.ev.column
                                  /\ last.ev.column < e.r.x + e.r.width
                                  /\ e.r.y <= last.ev.row
                                  /\ last.ev.row < e.r.y + e.r.height})
        /\ \A i \in DOMAIN NewUnits : NewUnits[i].data \in ClipBytes
        /\ Len(NewUnits) <= 1

\* C2 witness: in a 100-wide frame of the repository's table a release at
\* column 50 launched the second tile's clip and nothing else.
PointerDispatchWitness ==
    /\ config = CONFIG
    /\ last.poll = "event"
    /\ last.ev = Mouse("Up", 50, 2)
    /\ last_computed_size = << <<100, 24>> >>
    /\ pc = "draw"
    /\ Len(units) = last.n0 + 1
    /\ units[Len(units)].data = CONFIG[2].data

\* C2, miss: a release outside every rectangle launched nothing.
PointerMissWitness ==
    /\ config = CONFIG
    /\ last.poll = "event"
    /\ last.ev = Mouse("Up", 50, 2)
    /\ last.targets # {}
    /\ Len(units) = last.n0

\* C3 -- Quit: an Escape key press makes handle_events return true; from
\* then on main is past the loop (no further frame, no further dispatch), and
\* the Escape press launched no thread.
EscapeQuits ==
    (last.poll = "event" /\ last.ev.type = "Key" /\ last.ev.kind = "Press"
        /\ last.ev.code = "Esc") =>
        /\ last.ret
        /\ should_quit
        /\ pc \in PastLoop
        /\ Len(units) = last.n0

\* C3 witness: Escape was pressed while a clip was playing and main has
\* left the loop and restored the terminal.
EscapeQuitsWitness ==
    /\ last.poll = "event"
    /\ last.ev = Key("Press", "Esc")
    /\ Len(units) > 0
    /\ pc = "exit_ok"

\* main can take its next loop step whatever the playback threads are doing
MainCanStep ==
    /\ pc = "draw" => ENABLED Draw
    /\ pc = "events" => ENABLED (HandleEvents \/ PollTimeout)

\* A step of main leaves every running thread as it was, and the threads it
\* adds are still at the start of play_sound when the step is over
LaunchOnly ==
    pc' # pc =>
        /\ Len(units') >= Len(units)
        /\ \A i \in DOMAIN units : units[i].st \in InFlight /\ pc' \notin {"exit_ok", "exit_err"}
                                      => units'[i] = units[i]
        /\ \A i \in (Len(units) + 1) .. Len(units') : units'[i].st = "opening"

\* C4 -- Non-blocking launch: triggering playback only spawns a thread and
\* returns; handle_events returning, the next draw and the next poll never
\* wait on a playback thread, whatever states the threads are in.
NonBlockingLaunch == [][LaunchOnly]_vars /\ []MainCanStep

\* C4 witness: main drew the next frame and polled again while two threads
\* launched earlier are still opening the device and playing.
NonBlockingLaunchWitness ==
    /\ Len(units) = 2
    /\ units[1].st = "playing"
    /\ units[2].st = "opening"
    /\ last.poll = "timeout"
    /\ last.n0 = 2
    /\ pc = "events"

\* A thread ending in failure changes nothing but its own state
FailureStaysLocal ==
    \A i \in DOMAIN units :
        (units[i].st \in InFlight /\ i \in DOMAIN units' /\ units'[i].st = "failed") =>
            /\ pc' = pc
            /\ should_quit' = should_quit
            /\ layout' = layout
            /\ targets' = targets
            /\ last_computed_size' = last_computed_size
            /\ <<raw_mode, alt_screen, mouse_capture>>' = <<raw_mode, alt_screen, mouse_capture>>
            /\ queue' = queue
            /\ DOMAIN units' = DOMAIN units
            /\ \A j \in DOMAIN units : j # i => units'[j] = units[j]

\* A failed thread does not stop a queued event from being dispatched
FailureKeepsDispatch ==
    (pc = "events" /\ queue # << >> /\ \E i \in DOMAIN units : units[i].st = "failed")
        => ENABLED HandleEvents

\* C5 -- Failure isolation: a playback thread that fails (no output device,
\* decode or sink error) only ends itself: the main loop's state (position,
\* should_quit, layout, hit-map) and every other thread are unchanged, and
\* later triggers still launch threads.
FailureIsolation == [][FailureStaysLocal]_vars /\ []FailureKeepsDispatch

\* C5 witness: the first thread failed, a later trigger launched a second
\* thread which played to its end, and main is still looping.
FailureIsolationWitness ==
    /\ Len(units) = 2
    /\ units[1].st = "failed"
    /\ units[2].st = "finished"
    /\ last.n0 = 1
    /\ pc = "draw"

\* Threads are only ever appended, each keeping its clip
NoReplacement ==
    \A i \in DOMAIN units : i \in DOMAIN units' /\ units'[i].data = units[i].data

NoneCancelled == Running => \A i \in DOMAIN units : units[i].st # "killed"

\* C6 -- No de-duplication or cancellation: the number of threads launched
\* equals the number of trigger matches dispatched so far; a trigger for a
\* clip that is already playing launches another thread, and no launch
\* cancels or replaces a thread in flight.
NoDeduplication ==
    [](Len(units) = matches /\ NoneCancelled) /\ [][NoReplacement]_vars

\* C6 witness: the same clip was triggered twice and both threads are in flight.
NoDeduplicationWitness ==
    /\ Len(units) = 2
    /\ matches = 2
    /\ units[1].data = units[2].data
    /\ units[1].st = "playing"
    /\ units[2].st = "playing"

\* C7 -- Terminal restoration: whenever main has ended, raw mode is
\* disabled, mouse capture is disabled and the alternate screen is left.
TerminalRestored ==
    pc \in {"exit_ok", "exit_err"} =>
        ~raw_mode /\ ~mouse_capture /\ ~alt_screen

\* An event handle_events has no arm for
Ignored(ev) ==
    /\ ~(ev.type = "Key" /\ ev.kind = "Press")
    /\ ~(ev.type = "Mouse" /\ ev.kind = "Up")

IgnoredStep ==
    (/\ pc = "events"
     /\ pc' \notin {"events", "exit_err"}
     /\ (queue = << >> \/ Ignored(Head(queue))))
        => /\ pc' = "draw"
           /\ ~should_quit'
           /\ units' = units
           /\ targets' = targets
           /\ layout' = layout
           /\ last_computed_size' = last_computed_size

\* C8 -- Ignored events: an event that is neither a key Press nor a mouse
\* button-up, and a poll that times out, make handle_events return Ok(false)
\* with no thread launched and hit-map, layout and last computed size unchanged.
IgnoredEvents == [][IgnoredStep]_vars

\* C8 witness: the release of a trigger key was read and main went on to
\* the next frame without launching anything.
IgnoredEventsWitness ==
    /\ config = CONFIG
    /\ last.poll = "event"
    /\ last.ev = Key("Release", "g")
    /\ ~last.ret
    /\ Len(units) = last.n0
    /\ pc = "draw"

\* C10 -- Tile containment: after a resolution for a W x H viewport the
\* container is exactly (0, 0, W, H) and every tile rectangle lies inside it.
TileContainment ==
    last_computed_size # << >> =>
        /\ layout.root = [x |-> 0, y |-> 0,
                          width |-> last_computed_size[1][1],
                          height |-> last_computed_size[1][2]]
        /\ \A i \in Tiles : Inside(layout.tiles[i], layout.root)

\* The rectangle create_layout builds for tile i
TileRect(i) == NodeRect(layout.tiles[i])

\* C11 -- Tile size: once a frame was drawn for a viewport of width W >= 1,
\* every tile rectangle is at least min(W, 10) and at most 40 cells wide and
\* exactly 5 cells high, whatever the number of tiles.
TileSize ==
    frame # << >> =>
        \A i \in Tiles :
            /\ TileRect(i).width >= Min(frame[1][1], MinTrack)
            /\ TileRect(i).width <= MaxTrack
            /\ TileRect(i).height = TileHeight

\* C11 witness: tiles resolved in a viewport narrower than the minimum track,
\* where the tiles are wider than the viewport.
TileSizeWitness ==
    /\ frame # << >>
    /\ frame[1][1] < MinTrack
    /\ Len(config) >= 3
    /\ \A i \in Tiles : TileRect(i).width = MinTrack /\ TileRect(i).height = TileHeight

\* C12 -- Tile disjointness: the tile rectangles of a resolved layout are
\* pairwise disjoint, so no two tiles have the same hit-map key and no cell
\* is contained in two tiles.
TileDisjointness ==
    frame # << >> =>
        \A i, j \in Tiles :
            i # j =>
                /\ Disjoint(TileRect(i), TileRect(j))
                /\ TileRect(i) # TileRect(j)

\* C12 witness: more tiles than columns, so tiles share a column in
\* different rows and share a row in different columns.
TileDisjointnessWitness ==
    /\ frame # << >>
    /\ Len(config) >= 3
    /\ \E i, j, k \in Tiles :
          /\ i # j /\ TileRect(i).x = TileRect(j).x /\ TileRect(i).y # TileRect(j).y
          /\ TileRect(i).y = TileRect(k).y /\ TileRect(i).x # TileRect(k).x
\* C13 -- Resize round-trip: two frames of the same size have the same tile
\* rectangles (and hit-map) whatever sizes were rendered before or between
\* them; in particular sizes A, B, A give the third frame the rectangles of
\* the first.
ResizeRoundTrip ==
    \A a, b \in DOMAIN trail :
        trail[a].size = trail[b].size =>
            /\ trail[a].tiles = trail[b].tiles
            /\ trail[a].targets = trail[b].targets

\* C13 witness: frames at (80,24), (40,24), (80,24); the second frame moved
\* the tiles and the third put them back.
ResizeRoundTripWitness ==
    /\ config = CONFIG
    /\ Len(trail) >= 3
    /\ trail[1].size = <<80, 24>>
    /\ trail[2].size = <<40, 24>>
    /\ trail[3].size = <<80, 24>>
    /\ trail[2].tiles # trail[1].tiles
    /\ trail[3].tiles = trail[1].tiles
\* C14 -- Playback runs to the end: a launched thread ends only by finishing
\* its clip or by failing; nothing else ends it, not even main returning
\* while the thread is in flight.
PlaybackRunsToEnd ==
    \A i \in DOMAIN units : units[i].st \in InFlight \cup {"finished", "failed"}
\* C15 -- No stale layout: when a frame has built the hit-map, the layout in
\* use is the one computed for that frame's size and last_computed_size is
\* that size; the first frame and every frame whose size differs from the
\* previous frame's ran compute_layout.
NoStaleLayout ==
    /\ frame # << >> =>
          /\ last_computed_size = frame
          /\ layout = ComputeLayout(frame[1], Len(config), auto_fit_track)
    /\ \A k \in DOMAIN trail :
          (k = 1 \/ trail[k].size # trail[k - 1].size) => trail[k].resolved

\* C15 witness: the second frame has another size than the first and the
\* layout in use after it is the one for the second size.
NoStaleLayoutWitness ==
    /\ config = CONFIG
    /\ Len(trail) = 2
    /\ trail[1].size = <<80, 24>>
    /\ trail[2].size = <<25, 12>>
    /\ trail[2].resolved
    /\ last_computed_size = << <<25, 12>> >>
    /\ layout.root = RootLayout(25, 12)

\* One pass through the draw closure either finds the frame's size different
\* from last_computed_size and runs compute_layout, or leaves the layout
\* and last_computed_size as they are.
LazyStep ==
    (pc = "draw" /\ pc' = "events") =>
        /\ trail'[Len(trail')].resolved <=> (last_computed_size # frame')
        /\ ~trail'[Len(trail')].resolved =>
              /\ layout' = layout
              /\ last_computed_size' = last_computed_size

\* C16 -- Lazy memoized recomputation: compute_layout runs in a frame only
\* when the frame's size differs from the size of the most recent resolution;
\* a frame at an unchanged size recomputes nothing and leaves the computed
\* rectangles and last_computed_size unchanged.
LazyResolution == [][LazyStep]_vars

\* C16 witness: two frames in a row at the same size, the first resolved the
\* layout and the second did not.
LazyResolutionWitness ==
    /\ config = CONFIG
    /\ Len(trail) = 2
    /\ trail[1].size = trail[2].size
    /\ trail[1].resolved
    /\ ~trail[2].resolved
    /\ trail[2].tiles = trail[1].tiles
\* The hit-map a frame of the given size leaves behind
FrameTargets(size) ==
    CreateLayout(ComputeLayout(size, Len(config), auto_fit_track), {})

\* handle_events returns to the loop
Returns == pc = "events" /\ pc' \in {"draw", "disable_raw"}

RebuildStep ==
    Returns =>
        /\ fresh
        /\ frame # << >>
        /\ targets = FrameTargets(frame[1])
        /\ last'.ev.type = "Mouse" => last'.targets = targets

\* C17 -- Rebuild precedes dispatch: whenever handle_events runs, the hit-map
\* has been cleared and completely refilled by a draw since the previous
\* handle_events, so a pointer dispatch consults the hit-map of the frame of
\* its own iteration.
RebuildPrecedesDispatch == [][RebuildStep]_vars

\* C17 witness: a second iteration's pointer release launched a clip from
\* the hit-map of the frame drawn just before it.
RebuildPrecedesDispatchWitness ==
    /\ config = CONFIG
    /\ arrived = 2
    /\ queue = << >>
    /\ pc = "draw"
    /\ ~fresh
    /\ IsMouseUp(last.ev)
    /\ last.targets = FrameTargets(frame[1])
    /\ Len(units) = last.n0 + 1
\* One entry per tile: its rectangle in the current layout, its clip's bytes
TileEntries == {[r |-> TileRect(i), d |-> Mapping(i).data] : i \in Tiles}

\* C18 -- HitMap content: after every frame the hit-map is exactly one entry
\* per tile, keyed by the tile's rectangle in the current layout and valued
\* by the bytes of the tile's registry entry: N entries for N registry
\* entries, none for the container and none left from an earlier frame.
HitMapContent ==
    frame # << >> =>
        /\ targets = TileEntries
        /\ Cardinality(targets) = Len(config)
        /\ \A e \in targets : e.d \in ClipBytes
        /\ trail # << >> => trail[Len(trail)].targets = targets

\* C18 witness: a frame at another size than the one before replaced all
\* three entries of the hit-map.
HitMapContentWitness ==
    /\ config = CONFIG
    /\ Len(trail) = 2
    /\ trail[1].size # trail[2].size
    /\ Cardinality(trail[1].targets) = 3
    /\ trail[1].targets \cap targets = {}
    /\ Cardinality(targets) = 3

ZeroTileStep ==
    (config = << >> /\ Returns /\ ~Quits(last'.ev)) =>
        /\ units' = units
        /\ pc' = "draw"
        /\ ~should_quit'

\* C19 -- Zero-tile configuration: with an empty registry the layout is a
\* container without tile rectangles, the hit-map is empty after every
\* frame, no thread is ever launched, and an event other than Escape makes
\* handle_events return to the loop normally.
ZeroTiles ==
    /\ [](config = << >> =>
            /\ layout.tiles = << >>
            /\ frame # << >> => layout.root = RootLayout(frame[1][1], frame[1][2])
            /\ targets = {}
            /\ units = << >>
            /\ matches = 0)
    /\ [][ZeroTileStep]_vars

\* C19 witness: with the empty registry a key press and a pointer release
\* were dispatched and the loop went on to the next frame.
ZeroTilesWitness ==
    /\ config = << >>
    /\ frame # << >>
    /\ arrived = 2
    /\ queue = << >>
    /\ IsMouseUp(last.ev)
    /\ pc = "draw"
    /\ units = << >>

OneEventStep ==
    /\ (Returns /\ last'.poll = "event") =>
          /\ queue # << >>
          /\ last'.ev = Head(queue)
          /\ queue' = Tail(queue)
          /\ fresh
    /\ queue' # queue =>
          \/ Returns /\ queue' = Tail(queue)
          \/ \E ev \in Inputs : queue' = Append(queue, ev)
    /\ pc \in PastLoop => queue' = queue /\ last' = last

\* C20 -- One event per frame: every handle_events call that reads an event
\* takes exactly the oldest queued one, after a draw that followed the
\* previous call; otherwise the queue only grows at its end; and once the
\* loop is left (Escape) the events still queued stay undispatched.
OneEventPerFrame == [][OneEventStep]_vars

\* C20 witness: Escape was dispatched while a later event was queued behind
\* it; main ended with that event still in the queue.
OneEventPerFrameWitness ==
    /\ pc = "exit_ok"
    /\ last.ev = Key("Press", "Esc")
    /\ queue # << >>
    /\ arrived = 2

====
